---- MODULE Spec2Model ----
(***************************************************************************)
(* The vql query parser (vql-macros/src/parse.rs) as a function from token  *)
(* streams to parse results, and the condition-tree parser as a machine     *)
(* with an explicit call stack.                                             *)
(*                                                                          *)
(* A token stream is a sequence of strings.  A brace group is written flat, *)
(* "{" ... "}", and every stream is balanced (the tokenizer guarantees it). *)
(* A parser works on a region [pos, end) of the stream: pos is the cursor,  *)
(* end is one past the last token of the enclosing group (or of the input). *)
(* A parse result is [ok, val, pos, expected]: on success val is the value  *)
(* and pos the cursor after it, on failure pos is the offending position    *)
(* and expected the set of alternatives the error names.                    *)
(***************************************************************************)
EXTENDS Integers, Sequences, FiniteSets, TLC

(***************************************************************************)
(* Tokens                                                                   *)
(***************************************************************************)

\* mod kw: the custom keywords.  A custom keyword is an ordinary identifier.
Keywords ==
    { "SELECT", "INSERT", "UPDATE", "DELETE", "FROM", "WHERE", "AND", "OR",
      "IN", "LIKE", "NOT", "GROUP", "BY", "ORDER", "ASC", "DESC", "LIMIT",
      "OFFSET", "JOIN", "ON", "INNER", "OUTER", "LEFT", "RIGHT", "FULL",
      "FOR", "SHARE", "SET", "RETURNING", "AS", "INTO" }

PlainIdents == { "a", "b", "c", "d", "g", "h", "t", "t2", "table", "table2",
                 "select" }

IntLits == { "1", "2", "3", "4", "10", "20" }

CmpPuncts == { "==", "!=", ">=", ">", "<=", "<" }

Puncts == CmpPuncts \cup { "{", "}", ",", ":", ";", "=", "*", "if" }

AllTokens == Keywords \cup PlainIdents \cup IntLits \cup Puncts

\* syn::Ident: any identifier that is not a keyword of the host language
\* ("if" is one); the custom keywords are identifiers.
IsIdent(t) == t \in Keywords \cup PlainIdents

IsLitInt(t) == t \in IntLits

\* LitInt::base10_parse
base10_parse(t) ==
    CASE t = "1" -> 1 [] t = "2" -> 2 [] t = "3" -> 3 [] t = "4" -> 4
      [] t = "10" -> 10 [] t = "20" -> 20

(***************************************************************************)
(* Results, peeking, single tokens                                          *)
(***************************************************************************)

NoVal == <<>>

Ok(v, p) == [ok |-> TRUE, val |-> v, pos |-> p, expected |-> {}]

Err(p, exp) == [ok |-> FALSE, val |-> NoVal, pos |-> p, expected |-> exp]

\* let v = x; F(v): x is computed once and F continues with its value
Bind(x, F(_)) == CHOOSE y \in { F(v) : v \in {x} } : TRUE

\* let v = r?; F(v): an error of r is returned as it is, F continues with
\* the value and the position of a success
Then(r, F(_)) == CHOOSE y \in { IF v.ok THEN F(v) ELSE v : v \in {r} } : TRUE

None == <<>>

Some(v) == <<v>>

\* input.peek(T)
Peek(toks, pos, end, t) == pos < end /\ toks[pos] = t

\* input.peek2(T), used only behind a first token that is an identifier
Peek2(toks, pos, end, t) == pos + 1 < end /\ toks[pos + 1] = t

PeekIdent(toks, pos, end) == pos < end /\ IsIdent(toks[pos])

\* input.parse::<T>() for a keyword or punctuation token T
Expect(toks, pos, end, t) ==
    IF Peek(toks, pos, end, t) THEN Ok(t, pos + 1) ELSE Err(pos, {t})

\* input.parse::<Ident>()?.to_string()
IdentParse(toks, pos, end) ==
    IF PeekIdent(toks, pos, end) THEN Ok(toks[pos], pos + 1)
    ELSE Err(pos, {"identifier"})

\* input.parse::<LitInt>()?.base10_parse()?
LitIntParse(toks, pos, end) ==
    IF pos < end /\ IsLitInt(toks[pos]) THEN Ok(base10_parse(toks[pos]), pos + 1)
    ELSE Err(pos, {"integer literal"})

\* The position of the "}" closing the "{" at position open.
RECURSIVE ScanBrace(_, _, _)
ScanBrace(toks, i, depth) ==
    IF i > Len(toks) THEN i
    ELSE IF toks[i] = "{" THEN ScanBrace(toks, i + 1, depth + 1)
    ELSE IF toks[i] = "}" THEN
        IF depth = 1 THEN i ELSE ScanBrace(toks, i + 1, depth - 1)
    ELSE ScanBrace(toks, i + 1, depth)

MatchBrace(toks, open) == ScanBrace(toks, open + 1, 1)

(***************************************************************************)
(* The expression delegate (syn::Expr), an external collaborator: it        *)
(* consumes one value expression and returns it as an opaque handle.  Here  *)
(* an expression is an atom (identifier or integer literal), optionally     *)
(* followed by a comparison operator and a second atom; the handle is the   *)
(* tokens consumed.                                                         *)
(***************************************************************************)
IsAtom(t) == IsIdent(t) \/ IsLitInt(t)

ExprParse(toks, pos, end) ==
    IF pos < end /\ IsAtom(toks[pos]) THEN
        IF pos + 2 < end /\ toks[pos + 1] \in CmpPuncts /\ IsAtom(toks[pos + 2])
        THEN Ok([expr |-> <<toks[pos], toks[pos + 1], toks[pos + 2]>>], pos + 3)
        ELSE Ok([expr |-> <<toks[pos]>>], pos + 1)
    ELSE Err(pos, {"expression"})

(***************************************************************************)
(* Primitive parsers.  A Lookahead1 records every alternative it peeked     *)
(* for and did not find; its error names exactly those.                     *)
(***************************************************************************)

\* impl Parse for BoolOp
BoolOpParse(toks, pos, end) ==
    IF Peek(toks, pos, end, "AND") THEN Ok("And", pos + 1)
    ELSE IF Peek(toks, pos, end, "OR") THEN Ok("Or", pos + 1)
    ELSE Err(pos, {"AND", "OR"})

\* impl Parse for WhereOp
WhereOpParse(toks, pos, end) ==
    LET isNot == Peek(toks, pos, end, "NOT")
        seen  == CmpPuncts \cup {"LIKE"}
    IN  IF Peek(toks, pos, end, "==") THEN Ok("Eq", pos + 1)
        ELSE IF Peek(toks, pos, end, "!=") THEN Ok("Ne", pos + 1)
        ELSE IF Peek(toks, pos, end, ">=") THEN Ok("Ge", pos + 1)
        ELSE IF Peek(toks, pos, end, ">") THEN Ok("Gt", pos + 1)
        ELSE IF Peek(toks, pos, end, "<=") THEN Ok("Le", pos + 1)
        ELSE IF Peek(toks, pos, end, "<") THEN Ok("Lt", pos + 1)
        ELSE IF Peek(toks, pos, end, "LIKE") THEN Ok("Like", pos + 1)
        ELSE IF isNot /\ Peek2(toks, pos, end, "LIKE") THEN Ok("NotLike", pos + 2)
        ELSE IF Peek(toks, pos, end, "IN") THEN Ok("In", pos + 1)
        ELSE IF isNot /\ Peek2(toks, pos, end, "IN") THEN Ok("NotIn", pos + 2)
        ELSE Err(pos, IF isNot THEN seen \cup {"IN"}
                      ELSE seen \cup {"NOT", "IN"})

\* impl Parse for Ordering
OrderingParse(toks, pos, end) ==
    IF Peek(toks, pos, end, "ASC") THEN Ok("Asc", pos + 1)
    ELSE IF Peek(toks, pos, end, "DESC") THEN Ok("Desc", pos + 1)
    ELSE Err(pos, {"ASC", "DESC"})

\* impl Parse for ForLock: UPDATE is peeked on the input, not on the
\* lookahead, so the lookahead records SHARE alone.
ForLockParse(toks, pos, end) ==
    IF Peek(toks, pos, end, "UPDATE") THEN Ok("Update", pos + 1)
    ELSE IF Peek(toks, pos, end, "SHARE") THEN Ok("Share", pos + 1)
    ELSE Err(pos, {"SHARE"})

\* impl Parse for Column
ColumnParse(toks, pos, end) ==
    IF PeekIdent(toks, pos, end) THEN
        IF Peek(toks, pos + 1, end, "AS") THEN
            LET al == IdentParse(toks, pos + 2, end)
            IN  IF al.ok
                THEN Ok([kind |-> "Named", name |-> toks[pos], alias |-> Some(al.val)],
                        al.pos)
                ELSE al
        ELSE Ok([kind |-> "Named", name |-> toks[pos], alias |-> None], pos + 1)
    ELSE IF Peek(toks, pos, end, "*") THEN
        Ok([kind |-> "All", name |-> "*", alias |-> None], pos + 1)
    ELSE Err(pos, {"identifier", "*"})

\* The join type read by Join::parse through one Lookahead1
JoinTypeParse(toks, pos, end) ==
    IF Peek(toks, pos, end, "INNER") THEN Ok("Inner", pos + 1)
    ELSE IF Peek(toks, pos, end, "LEFT") THEN Ok("Left", pos + 1)
    ELSE IF Peek(toks, pos, end, "RIGHT") THEN Ok("Right", pos + 1)
    ELSE IF Peek(toks, pos, end, "FULL") THEN Ok("Full", pos + 1)
    ELSE Err(pos, {"INNER", "LEFT", "RIGHT", "FULL"})

\* What follows the join type and the optional OUTER: JOIN table ON expr
JoinRest(jt, outer, toks, end) ==
    Then(Expect(toks, IF outer THEN jt.pos + 1 ELSE jt.pos, end, "JOIN"),
         LAMBDA kj :
    Then(IdentParse(toks, kj.pos, end), LAMBDA tb :
    Then(Expect(toks, tb.pos, end, "ON"), LAMBDA ko :
    Then(ExprParse(toks, ko.pos, end), LAMBDA on :
         Ok([table |-> tb.val, on |-> on.val, join_type |-> jt.val,
             outer |-> outer], on.pos)))))

\* JoinParse with the outer flag set by the join type FULL, OUTER read after
\* FULL alone
JoinParse_OuterOnlyFull(toks, pos, end) ==
    Then(JoinTypeParse(toks, pos, end), LAMBDA jt :
         JoinRest(jt, jt.val = "Full" /\ Peek(toks, jt.pos, end, "OUTER"),
                  toks, end))

\* impl Parse for Join
JoinParse(toks, pos, end) ==
    Then(JoinTypeParse(toks, pos, end), LAMBDA jt :
         JoinRest(jt, Peek(toks, jt.pos, end, "OUTER"), toks, end))

\* impl Parse for ColumnCondition
ColumnConditionParse(toks, pos, end) ==
    Then(IdentParse(toks, pos, end), LAMBDA col :
    Then(WhereOpParse(toks, col.pos, end), LAMBDA op :
    Then(ExprParse(toks, op.pos, end), LAMBDA val :
         Ok([column |-> col.val, op |-> op.val, value |-> val.val], val.pos))))

(***************************************************************************)
(* The condition tree: Conditional<T>, Where, BoolWhere, and the            *)
(* comma-separated lists (Punctuated::parse_terminated) of every clause.    *)
(***************************************************************************)
RECURSIVE ConditionalWhereParse(_, _, _)
RECURSIVE WhereParse(_, _, _)
RECURSIVE BoolWhereParse(_, _, _)
RECURSIVE ParseElem(_, _, _, _)
RECURSIVE parse_terminated(_, _, _, _, _)

\* The closures handed to parse_terminated at lines 117, 131-135 and
\* 185-190 / 220-225.
GroupByEntry(toks, pos, end) == IdentParse(toks, pos, end)

OrderByEntry(toks, pos, end) ==
    Then(IdentParse(toks, pos, end), LAMBDA col :
    Then(OrderingParse(toks, col.pos, end), LAMBDA ord :
         Ok(<<col.val, ord.val>>, ord.pos)))

AssignEntry(toks, pos, end) ==
    Then(IdentParse(toks, pos, end), LAMBDA col :
    Then(Expect(toks, col.pos, end, "="), LAMBDA eq :
    Then(ExprParse(toks, eq.pos, end), LAMBDA ex :
         Ok(<<col.val, ex.val>>, ex.pos))))

\* impl<T> Parse for Conditional<T>: the guard behind the value
GuardParse(value, toks, end) ==
    Then(value, LAMBDA v :
         IF Peek(toks, v.pos, end, "if") THEN
             Then(ExprParse(toks, v.pos + 1, end), LAMBDA guard :
                  Ok([value |-> v.val, condition |-> Some(guard.val)],
                     guard.pos))
         ELSE Ok([value |-> v.val, condition |-> None], v.pos))

\* ConditionalColumnParse leaving a guard behind the leaf to the caller
ConditionalColumnParse_NoOwnGuard(toks, pos, end) ==
    Then(ColumnConditionParse(toks, pos, end), LAMBDA v :
         Ok([value |-> v.val, condition |-> None], v.pos))

\* impl<T> Parse for Conditional<T>, T = ColumnCondition
ConditionalColumnParse(toks, pos, end) ==
    GuardParse(ColumnConditionParse(toks, pos, end), toks, end)

\* impl<T> Parse for Conditional<T>, T = Where
ConditionalWhereParse(toks, pos, end) ==
    GuardParse(WhereParse(toks, pos, end), toks, end)

\* Where::parse, lines 321 and 323: Where::BoolWhere(..) and Where::Column(..)
\* around the result r of the parser the stream was handed to
AsWhere(kind, r) ==
    Then(r, LAMBDA v : Ok([kind |-> kind, inner |-> v.val], v.pos))

\* WhereParse committing to a group on AND or OR alone, without the colon
WhereParse_NoColonPeek(toks, pos, end) ==
    IF Peek(toks, pos, end, "AND") \/ Peek(toks, pos, end, "OR") THEN
        AsWhere("BoolWhere", BoolWhereParse(toks, pos, end))
    ELSE IF PeekIdent(toks, pos, end) THEN
        AsWhere("Column", ConditionalColumnParse(toks, pos, end))
    ELSE Err(pos, {"AND", "OR", "identifier"})

\* impl Parse for Where
WhereParse(toks, pos, end) ==
    LET isAnd == Peek(toks, pos, end, "AND")
        isOr  == Peek(toks, pos, end, "OR")
        missed == (IF isAnd THEN {} ELSE {"AND"})
                  \cup (IF isAnd \/ isOr THEN {} ELSE {"OR"})
    IN  IF (isAnd \/ isOr) /\ Peek2(toks, pos, end, ":") THEN
            AsWhere("BoolWhere", BoolWhereParse(toks, pos, end))
        ELSE IF PeekIdent(toks, pos, end) THEN
            AsWhere("Column", ConditionalColumnParse(toks, pos, end))
        ELSE Err(pos, missed \cup {"identifier"})

\* braced!(content in input) followed by content.parse_terminated(P, Token![,])
BracedList(P, toks, pos, end) ==
    IF Peek(toks, pos, end, "{") THEN
        Bind(MatchBrace(toks, pos), LAMBDA close :
        Then(parse_terminated(P, toks, pos + 1, close, <<>>), LAMBDA list :
             Ok(list.val, close + 1)))
    ELSE Err(pos, {"curly braces"})

\* impl Parse for BoolWhere
BoolWhereParse(toks, pos, end) ==
    Then(BoolOpParse(toks, pos, end), LAMBDA op :
    Then(Expect(toks, op.pos, end, ":"), LAMBDA colon :
    Then(BracedList("ConditionalWhere", toks, colon.pos, end), LAMBDA list :
         Ok([op |-> op.val, conditions |-> list.val], list.pos))))

\* The element parser P handed to parse_terminated
ParseElem(P, toks, pos, end) ==
    CASE P = "Column" -> ColumnParse(toks, pos, end)
      [] P = "Join" -> JoinParse(toks, pos, end)
      [] P = "GroupBy" -> GroupByEntry(toks, pos, end)
      [] P = "OrderBy" -> OrderByEntry(toks, pos, end)
      [] P = "Assign" -> AssignEntry(toks, pos, end)
      [] P = "ConditionalWhere" -> ConditionalWhereParse(toks, pos, end)

\* parse_terminated collecting the elements in reverse order
parse_terminated_Reversed(P, toks, pos, end, acc) ==
    IF pos >= end THEN Ok(acc, pos)
    ELSE Then(ParseElem(P, toks, pos, end), LAMBDA value :
              IF value.pos >= end THEN Ok(<<value.val>> \o acc, value.pos)
              ELSE IF toks[value.pos] = ","
                   THEN parse_terminated(P, toks, value.pos + 1, end,
                                         <<value.val>> \o acc)
                   ELSE Err(value.pos, {","}))

\* Punctuated::parse_terminated: elements until the region is empty, a comma
\* after each element but the last, a trailing comma allowed.
parse_terminated(P, toks, pos, end, acc) ==
    IF pos >= end THEN Ok(acc, pos)
    ELSE Then(ParseElem(P, toks, pos, end), LAMBDA value :
              IF value.pos >= end THEN Ok(Append(acc, value.val), value.pos)
              ELSE IF toks[value.pos] = ","
                   THEN parse_terminated(P, toks, value.pos + 1, end,
                                         Append(acc, value.val))
                   ELSE Err(value.pos, {","}))

(***************************************************************************)
(* Clause helpers and the statement dispatcher                              *)
(***************************************************************************)

\* parse_where with an always-true filter standing in for a missing WHERE
parse_where_EmptyFilter(toks, pos, end) ==
    IF Peek(toks, pos, end, "WHERE") THEN
        Then(WhereParse(toks, pos + 1, end), LAMBDA w : Ok(Some(w.val), w.pos))
    ELSE Ok(Some([kind |-> "BoolWhere",
                  inner |-> [op |-> "And", conditions |-> <<>>]]), pos)

\* fn parse_where
parse_where(toks, pos, end) ==
    IF Peek(toks, pos, end, "WHERE") THEN
        Then(WhereParse(toks, pos + 1, end), LAMBDA w : Ok(Some(w.val), w.pos))
    ELSE Ok(None, pos)

\* fn parse_returning
parse_returning(toks, pos, end) ==
    IF Peek(toks, pos, end, "RETURNING")
    THEN BracedList("Column", toks, pos + 1, end)
    ELSE Ok(<<>>, pos)

\* parse_semicolon with a mandatory terminator
parse_semicolon_Required(toks, pos, end) == Expect(toks, pos, end, ";")

\* fn parse_semicolon
parse_semicolon(toks, pos, end) ==
    IF Peek(toks, pos, end, ";") THEN Ok(NoVal, pos + 1) ELSE Ok(NoVal, pos)

\* An optional clause that is a keyword followed by a value
OptJoins(toks, pos, end) ==
    IF Peek(toks, pos, end, "{") THEN BracedList("Join", toks, pos, end)
    ELSE Ok(<<>>, pos)

OptGroupBy(toks, pos, end) ==
    IF Peek(toks, pos, end, "GROUP") /\ Peek2(toks, pos, end, "BY")
    THEN BracedList("GroupBy", toks, pos + 2, end)
    ELSE Ok(<<>>, pos)

OptOrderBy(toks, pos, end) ==
    IF Peek(toks, pos, end, "ORDER") /\ Peek2(toks, pos, end, "BY")
    THEN BracedList("OrderBy", toks, pos + 2, end)
    ELSE Ok(<<>>, pos)

OptLimit(toks, pos, end) ==
    IF Peek(toks, pos, end, "LIMIT") THEN
        Then(LitIntParse(toks, pos + 1, end), LAMBDA n : Ok(Some(n.val), n.pos))
    ELSE Ok(None, pos)

OptOffset(toks, pos, end) ==
    IF Peek(toks, pos, end, "OFFSET") THEN
        Then(LitIntParse(toks, pos + 1, end), LAMBDA n : Ok(Some(n.val), n.pos))
    ELSE Ok(None, pos)

OptLock(toks, pos, end) ==
    IF Peek(toks, pos, end, "FOR") THEN
        Then(ForLockParse(toks, pos + 1, end), LAMBDA l : Ok(Some(l.val), l.pos))
    ELSE Ok(None, pos)

\* SelectParse looking for WHERE a second time, behind LIMIT
SelectParse_WhereAfterLimit(toks, pos, end) ==
    Then(BracedList("Column", toks, pos, end), LAMBDA columns :
    Then(Expect(toks, columns.pos, end, "FROM"), LAMBDA from :
    Then(IdentParse(toks, from.pos, end), LAMBDA table :
    Then(OptJoins(toks, table.pos, end), LAMBDA joins :
    Then(parse_where(toks, joins.pos, end), LAMBDA where1 :
    Then(OptGroupBy(toks, where1.pos, end), LAMBDA group_by :
    Then(OptOrderBy(toks, group_by.pos, end), LAMBDA order_by :
    Then(OptLimit(toks, order_by.pos, end), LAMBDA limit :
    Then(IF where1.val = None THEN parse_where(toks, limit.pos, end)
         ELSE Ok(where1.val, limit.pos), LAMBDA where2 :
    Then(OptOffset(toks, where2.pos, end), LAMBDA offset :
    Then(OptLock(toks, offset.pos, end), LAMBDA lock :
    Then(parse_semicolon(toks, lock.pos, end), LAMBDA semi :
         Ok([kind |-> "Select", columns |-> columns.val, table |-> table.val,
             where_clause |-> where2.val, group_by |-> group_by.val,
             order_by |-> order_by.val, limit |-> limit.val,
             offset |-> offset.val, joins |-> joins.val, lock |-> lock.val],
            semi.pos)))))))))))))

\* Query::parse, the SELECT branch (after the keyword)
SelectParse(toks, pos, end) ==
    Then(BracedList("Column", toks, pos, end), LAMBDA columns :
    Then(Expect(toks, columns.pos, end, "FROM"), LAMBDA from :
    Then(IdentParse(toks, from.pos, end), LAMBDA table :
    Then(OptJoins(toks, table.pos, end), LAMBDA joins :
    Then(parse_where(toks, joins.pos, end), LAMBDA where_clause :
    Then(OptGroupBy(toks, where_clause.pos, end), LAMBDA group_by :
    Then(OptOrderBy(toks, group_by.pos, end), LAMBDA order_by :
    Then(OptLimit(toks, order_by.pos, end), LAMBDA limit :
    Then(OptOffset(toks, limit.pos, end), LAMBDA offset :
    Then(OptLock(toks, offset.pos, end), LAMBDA lock :
    Then(parse_semicolon(toks, lock.pos, end), LAMBDA semi :
         Ok([kind |-> "Select", columns |-> columns.val, table |-> table.val,
             where_clause |-> where_clause.val, group_by |-> group_by.val,
             order_by |-> order_by.val, limit |-> limit.val,
             offset |-> offset.val, joins |-> joins.val, lock |-> lock.val],
            semi.pos))))))))))))

\* Query::parse, the INSERT branch
InsertParse(toks, pos, end) ==
    Then(BracedList("Assign", toks, pos, end), LAMBDA columns :
    Then(Expect(toks, columns.pos, end, "INTO"), LAMBDA into :
    Then(IdentParse(toks, into.pos, end), LAMBDA table :
    Then(parse_returning(toks, table.pos, end), LAMBDA returning :
    Then(parse_semicolon(toks, returning.pos, end), LAMBDA semi :
         Ok([kind |-> "Insert", columns |-> columns.val, table |-> table.val,
             returning |-> returning.val], semi.pos))))))

\* The WHERE of the UPDATE branch, written inline at lines 231-236
UpdateWhere(toks, pos, end) ==
    IF Peek(toks, pos, end, "WHERE") THEN
        Then(WhereParse(toks, pos + 1, end), LAMBDA w : Ok(Some(w.val), w.pos))
    ELSE Ok(None, pos)

\* Query::parse, the UPDATE branch
UpdateParse(toks, pos, end) ==
    Then(IdentParse(toks, pos, end), LAMBDA table :
    Then(Expect(toks, table.pos, end, "SET"), LAMBDA set :
    Then(BracedList("Assign", toks, set.pos, end), LAMBDA columns :
    Then(UpdateWhere(toks, columns.pos, end), LAMBDA where_clause :
    Then(parse_returning(toks, where_clause.pos, end), LAMBDA returning :
    Then(parse_semicolon(toks, returning.pos, end), LAMBDA semi :
         Ok([kind |-> "Update", columns |-> columns.val, table |-> table.val,
             where_clause |-> where_clause.val, returning |-> returning.val],
            semi.pos)))))))

\* Query::parse, the DELETE branch
DeleteParse(toks, pos, end) ==
    Then(Expect(toks, pos, end, "FROM"), LAMBDA from :
    Then(IdentParse(toks, from.pos, end), LAMBDA table :
    Then(parse_where(toks, table.pos, end), LAMBDA where_clause :
    Then(parse_returning(toks, where_clause.pos, end), LAMBDA returning :
    Then(parse_semicolon(toks, returning.pos, end), LAMBDA semi :
         Ok([kind |-> "Delete", table |-> table.val,
             where_clause |-> where_clause.val, returning |-> returning.val],
            semi.pos))))))

\* QueryParse with a stream that has no statement keyword read as a select
QueryParse_NoKeywordIsSelect(toks, pos, end) ==
    IF Peek(toks, pos, end, "SELECT") THEN SelectParse(toks, pos + 1, end)
    ELSE IF Peek(toks, pos, end, "INSERT") THEN InsertParse(toks, pos + 1, end)
    ELSE IF Peek(toks, pos, end, "UPDATE") THEN UpdateParse(toks, pos + 1, end)
    ELSE IF Peek(toks, pos, end, "DELETE") THEN DeleteParse(toks, pos + 1, end)
    ELSE SelectParse(toks, pos, end)

\* impl Parse for Query: dispatch on the first token through one Lookahead1
QueryParse(toks, pos, end) ==
    IF Peek(toks, pos, end, "SELECT") THEN SelectParse(toks, pos + 1, end)
    ELSE IF Peek(toks, pos, end, "INSERT") THEN InsertParse(toks, pos + 1, end)
    ELSE IF Peek(toks, pos, end, "UPDATE") THEN UpdateParse(toks, pos + 1, end)
    ELSE IF Peek(toks, pos, end, "DELETE") THEN DeleteParse(toks, pos + 1, end)
    ELSE Err(pos, {"SELECT", "INSERT", "UPDATE", "DELETE"})

(***************************************************************************)
(* Inputs: the token streams the parsers are applied to                     *)
(***************************************************************************)

\* Bounds of the input families
MaxDepth == 2

MaxClauses == 2

MaxJoins == 2

\* Leaves and guards of condition trees
LeafA == <<"a", "==", "1">>

LeafB == <<"b", "NOT", "LIKE", "2">>

LeafC == <<"c", "LIKE", "3">>

Leaves == { LeafA, LeafB, LeafC }

GuardG == <<"if", "d", "==", "4">>

GuardOpts == { <<>>, GuardG }

Combinators == { "AND", "OR" }

\* A group: combinator, colon, braces around the comma-separated children
GroupToks(op, kids) == <<op, ":", "{">> \o kids \o <<"}">>

\* The guarded where-nodes of nesting depth at most d over the leaves ls and
\* the combinators cs.  A group has no child, one child, or the leaf a == 1
\* followed by one child.
RECURSIVE GuardedWheres(_, _, _)
GuardedWheres(ls, cs, d) ==
    IF d = 0 THEN { l \o g : l \in ls, g \in GuardOpts }
    ELSE LET sub  == GuardedWheres(ls, cs, d - 1)
             kids == {<<>>} \cup sub \cup { LeafA \o <<",">> \o k : k \in sub }
         IN  sub \cup { GroupToks(op, ks) \o g :
                           op \in cs, ks \in kids, g \in GuardOpts }

TreeInputs == GuardedWheres(Leaves, Combinators, MaxDepth)

ShallowTrees == GuardedWheres(Leaves, Combinators, MaxDepth - 1)

\* The tree C1: {x, C2: {y, z if g}}
NestedShape(c1, c2, x, y, z) ==
    GroupToks(c1, x \o <<",">> \o GroupToks(c2, y \o <<",">> \o z \o GuardG))

ShapeInputs ==
    { NestedShape(c1, c2, x, y, z) :
        c1 \in Combinators, c2 \in Combinators,
        x \in Leaves, y \in Leaves, z \in Leaves }

\* A second guard, and the runs of guards written behind one child: none,
\* one, or two in a row
GuardH == <<"if", "h">>

GuardRuns == { <<>>, <<"g">>, <<"h">>, <<"g", "h">>, <<"h", "g">> }

GuardToks(name) == IF name = "g" THEN GuardG ELSE GuardH

GuardRunToks(run) ==
    IF run = <<>> THEN <<>>
    ELSE IF Len(run) = 1 THEN GuardToks(run[1])
    ELSE GuardToks(run[1]) \o GuardToks(run[2])

\* The children behind which the runs are written: two leaves, a group, and
\* a group whose own leaf child carries two guards
Kids == { "A", "B", "G", "N" }

LeafKids == { "A", "B" }

KidToks(k) ==
    CASE k = "A" -> LeafA
      [] k = "B" -> LeafB
      [] k = "G" -> GroupToks("OR", LeafC)
      [] k = "N" -> GroupToks("AND", LeafC \o GuardG \o GuardH)

\* C: {k1 <run1>, k2 <run2>}
TwoKids(c, k1, r1, k2, r2) ==
    GroupToks(c, KidToks(k1) \o GuardRunToks(r1) \o <<",">>
                 \o KidToks(k2) \o GuardRunToks(r2))

GuardRunGroups ==
    { TwoKids(c, k1, r1, k2, r2) :
        c \in Combinators, k1 \in Kids, r1 \in GuardRuns,
        k2 \in Kids, r2 \in GuardRuns }

\* One node with its run of guards, outside any group
GuardRunNodes == { KidToks(k) \o GuardRunToks(r) : k \in Kids, r \in GuardRuns }

GuardRunInputs == GuardRunGroups \cup GuardRunNodes

\* The optional clauses of a select, numbered in the order of the grammar
ClauseIds == 1 .. 7

ClauseToks(c) ==
    CASE c = 1 -> <<"{", "INNER", "JOIN", "t2", "ON", "a", "==", "b", "}">>
      [] c = 2 -> <<"WHERE", "a", "==", "1">>
      [] c = 3 -> <<"GROUP", "BY", "{", "a", ",", "b", "}">>
      [] c = 4 -> <<"ORDER", "BY", "{", "a", "ASC", ",", "b", "DESC", "}">>
      [] c = 5 -> <<"LIMIT", "10">>
      [] c = 6 -> <<"OFFSET", "20">>
      [] c = 7 -> <<"FOR", "UPDATE">>

RECURSIVE Concat(_)
Concat(ss) == IF ss = <<>> THEN <<>> ELSE Head(ss) \o Concat(Tail(ss))

\* Sequences of distinct clauses, in any order, of length at most n
RECURSIVE ClauseSeqsUpTo(_)
ClauseSeqsUpTo(n) ==
    IF n = 0 THEN { <<>> }
    ELSE LET shorter == ClauseSeqsUpTo(n - 1)
         IN  shorter \cup
             UNION { { Append(s, c) :
                         c \in ClauseIds \ { s[i] : i \in 1 .. Len(s) } } :
                     s \in { q \in shorter : Len(q) = n - 1 } }

AllClauses == [i \in ClauseIds |-> i]

ClauseSeqs == ClauseSeqsUpTo(MaxClauses) \cup { AllClauses }

SelectHead == <<"SELECT", "{", "a", ",", "b", ",", "c", "}", "FROM", "table">>

SelectWith(cs) == SelectHead \o Concat([i \in 1 .. Len(cs) |-> ClauseToks(cs[i])])

SelectInputs == { SelectWith(cs) : cs \in ClauseSeqs }

\* Statements that differ in their first token
FirstToks ==
    { "SELECT", "INSERT", "UPDATE", "DELETE", "FROM", "WHERE", "select", "a",
      "1", "*", ";", "if", "==", "AND" }

SelectBody == <<"{", "a", "}", "FROM", "table">>

InsertBody == <<"{", "a", "=", "b", ",", "c", "=", "20", "}", "INTO", "table">>

UpdateBody == <<"table", "SET", "{", "a", "=", "b", ",", "c", "=", "20", "}">>

DeleteBody == <<"FROM", "table">>

Bodies == { <<>>, SelectBody, InsertBody, UpdateBody, DeleteBody }

DispatchInputs ==
    { f \o b : f \in {<<>>} \cup { <<t>> : t \in FirstToks }, b \in Bodies }

\* Statements with a condition tree after WHERE
ReturningToks == <<"RETURNING", "{", "a", ",", "b", ",", "*", "}">>

WhereStmtInputs ==
    { SelectHead \o <<"WHERE">> \o w : w \in TreeInputs \cup ShapeInputs }
    \cup { <<"DELETE">> \o DeleteBody \o <<"WHERE">> \o w \o r :
             w \in ShallowTrees, r \in { <<>>, ReturningToks } }
    \cup { <<"UPDATE">> \o UpdateBody \o <<"WHERE">> \o w \o r :
             w \in ShallowTrees, r \in { <<>>, ReturningToks } }

\* Insert, update and delete with and without their optional clauses, and
\* with RETURNING written before WHERE
OtherStmtInputs ==
    { <<k>> \o b \o r :
        k \in { "INSERT", "UPDATE", "DELETE" },
        b \in { InsertBody, UpdateBody, DeleteBody },
        r \in { <<>>, ReturningToks, <<"WHERE">> \o LeafA,
                ReturningToks \o <<"WHERE">> \o LeafA,
                <<"RETURNING", "{", "}">>, <<"RETURNING">> } }

\* Join entries and join lists
JoinTypes == { "INNER", "LEFT", "RIGHT", "FULL" }

JoinToks(jt, outer) ==
    <<jt>> \o (IF outer THEN <<"OUTER">> ELSE <<>>)
    \o <<"JOIN", "table2", "ON", "c", "==", "d">>

JoinEntries == { JoinToks(jt, o) : jt \in JoinTypes, o \in BOOLEAN }

\* Join lists as sequences of <<join type, outer>>, and their tokens
JoinSpecLists == UNION { [1 .. n -> JoinTypes \X BOOLEAN] : n \in 0 .. MaxJoins }

RECURSIVE JoinListToks(_)
JoinListToks(js) ==
    IF js = <<>> THEN <<>>
    ELSE JoinToks(Head(js)[1], Head(js)[2])
         \o (IF Tail(js) = <<>> THEN <<>> ELSE <<",">> \o JoinListToks(Tail(js)))

JoinStmt(js) == SelectHead \o <<"{">> \o JoinListToks(js) \o <<"}">>

JoinStmtInputs ==
    { JoinStmt(js) \o r : js \in JoinSpecLists, r \in { <<>>, <<"LIMIT", "10">> } }

BadJoinEntries ==
    { <<"OUTER", "JOIN", "table2", "ON", "c">>,
      <<"JOIN", "table2", "ON", "c">>,
      <<"INNER", "OUTER", "OUTER", "JOIN", "table2", "ON", "c">>,
      <<"LEFT", "table2", "ON", "c">>,
      <<"FULL", "OUTER", "JOIN", "table2", "c">>,
      <<>> }

\* Streams without braces, for the parsers that decide on one or two tokens
Unbraced == AllTokens \ { "{", "}" }

PrimInputs ==
    { <<>> } \cup { <<t>> : t \in Unbraced } \cup { <<"NOT", t>> : t \in Unbraced }

WhereFirsts == { "AND", "OR", "a", "NOT", "1", ":", "if", "==" }

WhereTails == { <<>>, <<"1">>, <<"{", "a", "==", "1", "}">> }

WhereFragments ==
    PrimInputs \cup
    { <<t0, t1>> \o tl : t0 \in WhereFirsts, t1 \in Unbraced, tl \in WhereTails }

\* A select whose ordering direction or lock kind is not an accepted one
BadPrimStmtInputs ==
    { SelectHead \o <<"FOR", t>> : t \in Unbraced }
    \cup { SelectHead \o <<"ORDER", "BY", "{", "a", t, "}">> : t \in Unbraced }
    \cup { SelectHead \o <<"WHERE", "a", t, "1">> : t \in Unbraced }

QueryInputs ==
    DispatchInputs \cup SelectInputs \cup WhereStmtInputs \cup OtherStmtInputs
    \cup JoinStmtInputs \cup BadPrimStmtInputs
    \cup { SelectHead \o <<"WHERE">> \o w : w \in GuardRunInputs }

\* The parses that are run: a type T to parse and a stream to parse it from,
\* as in syn::parse_str::<T>(stream)
Workload ==
    ({"Query"} \X QueryInputs)
    \cup ({"Where", "ConditionalWhere"} \X (TreeInputs \cup ShapeInputs \cup WhereFragments))
    \cup ({"Where", "ConditionalWhere"} \X GuardRunInputs)
    \cup ({"Join"} \X (JoinEntries \cup BadJoinEntries))
    \cup ({"WhereOp", "Ordering", "ForLock", "BoolOp"} \X PrimInputs)

(***************************************************************************)
(* The state machine: one parse per behaviour                               *)
(***************************************************************************)
VARIABLES
    target,   \* the type being parsed
    input,    \* the token stream
    phase,    \* "ready", "parsed", "reparsed"
    result,   \* the result of parsing input
    result2,  \* the result of parsing input followed by ";"
    stack,    \* the call stack of the condition-tree parser, innermost last
    cursor,   \* the cursor of the condition-tree parser
    ret       \* the result the last call of the condition-tree parser returned

vars == <<target, input, phase, result, result2, stack, cursor, ret>>

machine == <<stack, cursor, ret>>

NoResult == [ok |-> FALSE, val |-> NoVal, pos |-> 0, expected |-> {}]

End(toks) == Len(toks) + 1

Init ==
    /\ \E w \in Workload : target = w[1] /\ input = w[2]
    /\ phase = "ready"
    /\ result = NoResult
    /\ result2 = NoResult
    /\ stack = <<>>
    /\ cursor = 1
    /\ ret = NoResult

Run(T, r) ==
    /\ target = T
    /\ phase = "ready"
    /\ result' = r
    /\ phase' = "parsed"
    /\ UNCHANGED <<target, input, result2, machine>>

ParseQuery == Run("Query", QueryParse(input, 1, End(input)))

ParseWhere == Run("Where", WhereParse(input, 1, End(input)))

ParseConditionalWhere ==
    Run("ConditionalWhere", ConditionalWhereParse(input, 1, End(input)))

ParseJoin == Run("Join", JoinParse(input, 1, End(input)))

ParseWhereOp == Run("WhereOp", WhereOpParse(input, 1, End(input)))

ParseOrdering == Run("Ordering", OrderingParse(input, 1, End(input)))

ParseForLock == Run("ForLock", ForLockParse(input, 1, End(input)))

ParseBoolOp == Run("BoolOp", BoolOpParse(input, 1, End(input)))

\* The same statement with the terminator written after it
ParseQueryTerminated ==
    /\ target = "Query"
    /\ phase = "parsed"
    /\ result2' = QueryParse(Append(input, ";"), 1, End(input) + 1)
    /\ phase' = "reparsed"
    /\ UNCHANGED <<target, input, result, machine>>

Next ==
    \/ ParseQuery
    \/ ParseQueryTerminated
    \/ ParseWhere
    \/ ParseConditionalWhere
    \/ ParseJoin
    \/ ParseWhereOp
    \/ ParseOrdering
    \/ ParseForLock
    \/ ParseBoolOp

Spec == Init /\ [][Next]_vars

\* syn::parse_str accepts a stream when the parser succeeds and the whole
\* stream is consumed
Accepted(r, toks) == r.ok /\ r.pos = End(toks)

(***************************************************************************)
(* The condition-tree parser as a machine.  Every call of                   *)
(* Conditional::<Where>::parse, Where::parse and BoolWhere::parse is a      *)
(* frame of the stack; the loop of parse_terminated runs in the BoolWhere   *)
(* frame.  The leaf parser and the primitive parsers do not recurse and     *)
(* run in one step.  A frame is [fn, pc, start, end, close, op, acc]: the   *)
(* region [start, end) it was called on and, for a group, the position of   *)
(* the closing brace, the combinator and the children parsed so far.        *)
(***************************************************************************)

\* Streams in which a group is malformed
BrokenTrees ==
    { <<"AND", ":", "{", "a", "==", "1", "a", "==", "1", "}">>,
      <<"OR", ":", "{", "a", "==", "1", ",", ",", "}">>,
      <<"AND", ":", "{", "OR", ":", "{", "a", "}", ",", "a", "==", "1", "}">>,
      <<"AND", ":", "{", "a", "==", "1", "if", "}", "if", "g">>,
      <<"AND", ":", "{", "a", "==", "1", ",", "}", "if", "g">>,
      <<"AND", ":", "a">>, <<"AND", "==", "1">>, <<"1">>, <<>> }

\* The machine is run on the trees over one leaf and one combinator, on the
\* tree of the repository's test and on the malformed streams
MachineInputs ==
    GuardedWheres({ LeafA }, { "AND" }, MaxDepth)
    \cup { NestedShape(c1, c2, LeafA, LeafB, LeafC) :
              c1 \in Combinators, c2 \in Combinators }
    \cup BrokenTrees

Frame(fn, start, end) ==
    [fn |-> fn, pc |-> "start", start |-> start, end |-> end, close |-> end,
     op |-> "", acc |-> <<>>]

Top == stack[Len(stack)]

Pop == SubSeq(stack, 1, Len(stack) - 1)

SetTop(f) == [stack EXCEPT ![Len(stack)] = f]

At(fn, pc) == stack # <<>> /\ Top.fn = fn /\ Top.pc = pc

TreeInit ==
    /\ target = "ConditionalWhere"
    /\ input \in MachineInputs
    /\ phase = "ready"
    /\ result = NoResult
    /\ result2 = NoResult
    /\ stack = << Frame("Conditional", 1, End(input)) >>
    /\ cursor = 1
    /\ ret = NoResult

Frozen == UNCHANGED <<target, input, phase, result, result2>>

\* Conditional::parse, line 277: let value = input.parse()?
CondCall ==
    /\ At("Conditional", "start")
    /\ stack' = Append(SetTop([Top EXCEPT !.pc = "value"]),
                       Frame("Where", cursor, Top.end))
    /\ UNCHANGED <<cursor, ret>>
    /\ Frozen

\* Conditional::parse, lines 277-284: the value has returned; the guard
CondGuard ==
    /\ At("Conditional", "value")
    /\ ret' = GuardParse(ret, input, Top.end)
    /\ cursor' = IF ret'.ok THEN ret'.pos ELSE cursor
    /\ stack' = Pop
    /\ Frozen

IsGroupStart(pos, end) ==
    /\ Peek(input, pos, end, "AND") \/ Peek(input, pos, end, "OR")
    /\ Peek2(input, pos, end, ":")

\* Where::parse, lines 320-321: a group
WhereGroup ==
    /\ At("Where", "start")
    /\ IsGroupStart(cursor, Top.end)
    /\ stack' = Append(SetTop([Top EXCEPT !.pc = "group"]),
                       Frame("BoolWhere", cursor, Top.end))
    /\ UNCHANGED <<cursor, ret>>
    /\ Frozen

\* Where::parse, lines 322-323: a leaf
WhereLeaf ==
    /\ At("Where", "start")
    /\ ~IsGroupStart(cursor, Top.end)
    /\ PeekIdent(input, cursor, Top.end)
    /\ ret' = AsWhere("Column", ConditionalColumnParse(input, cursor, Top.end))
    /\ cursor' = IF ret'.ok THEN ret'.pos ELSE cursor
    /\ stack' = Pop
    /\ Frozen

\* Where::parse, lines 324-325: neither
WhereFail ==
    /\ At("Where", "start")
    /\ ~IsGroupStart(cursor, Top.end)
    /\ ~PeekIdent(input, cursor, Top.end)
    /\ ret' = WhereParse(input, cursor, cursor)
    /\ stack' = Pop
    /\ UNCHANGED cursor
    /\ Frozen

\* Where::parse, line 321: the group has returned
WhereReturn ==
    /\ At("Where", "group")
    /\ ret' = AsWhere("BoolWhere", ret)
    /\ stack' = Pop
    /\ UNCHANGED cursor
    /\ Frozen

\* BoolWhere::parse, lines 290-293: combinator, colon, braces
GroupOpen ==
    /\ At("BoolWhere", "start")
    /\ LET op    == BoolOpParse(input, cursor, Top.end)
           colon == IF op.ok THEN Expect(input, op.pos, Top.end, ":") ELSE op
           brace == IF ~colon.ok THEN colon
                    ELSE IF Peek(input, colon.pos, Top.end, "{")
                    THEN Ok("{", colon.pos + 1)
                    ELSE Err(colon.pos, {"curly braces"})
       IN  /\ stack' = IF brace.ok
                       THEN SetTop([Top EXCEPT !.pc = "loop", !.op = op.val,
                                        !.close = MatchBrace(input, colon.pos)])
                       ELSE Pop
           /\ cursor' = IF brace.ok THEN brace.pos ELSE cursor
           /\ ret' = IF brace.ok THEN ret ELSE brace
    /\ Frozen

\* ListElem with the child parsed from the stream of the group, not from the
\* content of its braces
ListElem_FromOuterStream ==
    /\ At("BoolWhere", "loop")
    /\ cursor < Top.close
    /\ stack' = Append(SetTop([Top EXCEPT !.pc = "elem"]),
                       Frame("Conditional", cursor, Top.end))
    /\ UNCHANGED <<cursor, ret>>
    /\ Frozen

\* parse_terminated, the head of the loop with elements left: the next child
\* is parsed from the content of the braces
ListElem ==
    /\ At("BoolWhere", "loop")
    /\ cursor < Top.close
    /\ stack' = Append(SetTop([Top EXCEPT !.pc = "elem"]),
                       Frame("Conditional", cursor, Top.close))
    /\ UNCHANGED <<cursor, ret>>
    /\ Frozen

\* parse_terminated, the content is empty; BoolWhere::parse, line 298
ListDone ==
    /\ At("BoolWhere", "loop")
    /\ cursor >= Top.close
    /\ ret' = Ok([op |-> Top.op, conditions |-> Top.acc], Top.close + 1)
    /\ cursor' = Top.close + 1
    /\ stack' = Pop
    /\ Frozen

\* parse_terminated, a child has returned: its error, or the comma behind it
ListAfterElem ==
    /\ At("BoolWhere", "elem")
    /\ LET pushed == SetTop([Top EXCEPT !.acc = Append(Top.acc, ret.val),
                                        !.pc = "loop"])
           last   == cursor >= Top.close
           comma  == ~last /\ input[cursor] = ","
       IN  /\ stack' = IF ret.ok /\ (last \/ comma) THEN pushed ELSE Pop
           /\ cursor' = IF ret.ok /\ comma THEN cursor + 1 ELSE cursor
           /\ ret' = IF ret.ok /\ ~last /\ ~comma THEN Err(cursor, {","}) ELSE ret
    /\ Frozen

TreeNext ==
    \/ CondCall
    \/ CondGuard
    \/ WhereGroup
    \/ WhereLeaf
    \/ WhereFail
    \/ WhereReturn
    \/ GroupOpen
    \/ ListElem
    \/ ListDone
    \/ ListAfterElem

TreeSpec == TreeInit /\ [][TreeNext]_vars

\* A call that is running takes its next step
TreeFairSpec == TreeSpec /\ WF_vars(TreeNext)

Returned == stack = <<>>

\* The machine returns what Conditional::<Where>::parse returns
MachineAgrees ==
    (target = "ConditionalWhere" /\ phase = "ready" /\ Returned /\ ret # NoResult)
        => ret = ConditionalWhereParse(input, 1, End(input))

(***************************************************************************)
(* Properties                                                               *)
(***************************************************************************)
Ran(T) == target = T /\ phase # "ready"

StatementKeywords == { "SELECT", "INSERT", "UPDATE", "DELETE" }

KindOf(kw) ==
    CASE kw = "SELECT" -> "Select" [] kw = "INSERT" -> "Insert"
      [] kw = "UPDATE" -> "Update" [] kw = "DELETE" -> "Delete"

\* C1: query parsing dispatches on the first token only.  If it is SELECT,
\* INSERT, UPDATE or DELETE a successful parse is the Query variant of that
\* kind (and a failure comes from behind the keyword); for every other first
\* token, and for the empty stream, parsing fails at the first position with
\* an error whose expected set is exactly the four keywords.
C1_DispatchOnFirstToken ==
    Ran("Query") =>
        IF input # <<>> /\ input[1] \in StatementKeywords
        THEN /\ result.ok => result.val.kind = KindOf(input[1])
             /\ ~result.ok => result.pos >= 2
        ELSE /\ ~result.ok
             /\ result.pos = 1
             /\ result.expected = StatementKeywords

\* C1 witness: the bare {a} FROM table has been parsed and rejected
C1_Witness ==
    /\ Ran("Query")
    /\ input = SelectBody
    /\ ~result.ok
    /\ result.expected = StatementKeywords

\* The guards recorded in a parsed where-node: the guard of a leaf, and the
\* guard of every child slot of a group
RECURSIVE GuardCount(_)
RECURSIVE SlotsGuardCount(_)
GuardCount(w) ==
    IF w.kind = "Column" THEN Len(w.inner.condition)
    ELSE SlotsGuardCount(w.inner.conditions)

SlotsGuardCount(slots) ==
    IF slots = <<>> THEN 0
    ELSE Len(Head(slots).condition) + GuardCount(Head(slots).value)
         + SlotsGuardCount(Tail(slots))

IfCount(toks) == Cardinality({ i \in 1 .. Len(toks) : toks[i] = "if" })

\* C2: every where-node, leaf or group, directly after WHERE or nested in a
\* group, may be followed by `if <expression>`: the statement is accepted
\* and every guard written is recorded in the tree.
C2_EveryNodeGuardable ==
    /\ (Ran("Query") /\ input \in WhereStmtInputs) =>
           /\ Accepted(result, input)
           /\ GuardCount(result.val.where_clause[1]) = IfCount(input)
    /\ (Ran("ConditionalWhere") /\ input \in TreeInputs) =>
           /\ Accepted(result, input)
           /\ Len(result.val.condition) + GuardCount(result.val.value)
                = IfCount(input)

\* C3: a where-node is parsed as a group if and only if the current token is
\* AND or OR and the next one is a colon; otherwise, if the current token is
\* an identifier (AND and OR included), as a leaf whose column is that
\* identifier; otherwise it fails at the current token.  The parser chosen
\* starts at the current token: nothing is consumed before the choice.
C3_GroupIffColon ==
    Ran("Where") =>
        LET n == Len(input)
            group == n >= 2 /\ input[1] \in Combinators /\ input[2] = ":"
        IN  IF group THEN
                /\ result = AsWhere("BoolWhere", BoolWhereParse(input, 1, End(input)))
                /\ result.ok => result.val.kind = "BoolWhere"
                /\ ~result.ok => result.pos >= 3
            ELSE IF n >= 1 /\ IsIdent(input[1]) THEN
                /\ result = AsWhere("Column",
                       ConditionalColumnParse(input, 1, End(input)))
                /\ result.ok => /\ result.val.kind = "Column"
                                /\ result.val.inner.value.column = input[1]
                /\ ~result.ok => result.pos >= 2
            ELSE /\ ~result.ok
                 /\ result.pos = 1
                 /\ "identifier" \in result.expected

\* C3 witness: AND == 1 has been parsed as a leaf on the column AND
C3_Witness ==
    /\ Ran("Where")
    /\ input = <<"AND", "==", "1">>
    /\ result.ok
    /\ result.val.kind = "Column"
    /\ result.val.inner.value.column = "AND"

\* The trees the claims expect, built from the tokens of their leaves
OpOf(leaf) ==
    CASE leaf[2] = "==" -> "Eq"
      [] leaf[2] = "NOT" /\ leaf[3] = "LIKE" -> "NotLike"
      [] leaf[2] = "LIKE" -> "Like"

LeafNode(leaf, guard) ==
    [kind |-> "Column",
     inner |-> [value |-> [column |-> leaf[1], op |-> OpOf(leaf),
                           value |-> [expr |-> <<leaf[Len(leaf)]>>]],
                condition |-> guard]]

GroupNode(c, slots) ==
    [kind |-> "BoolWhere",
     inner |-> [op |-> IF c = "AND" THEN "And" ELSE "Or", conditions |-> slots]]

Slot(node, guard) == [value |-> node, condition |-> guard]

GuardExpr == [expr |-> <<"d", "==", "4">>]

NestedTree(c1, c2, x, y, z) ==
    GroupNode(c1,
        << Slot(LeafNode(x, None), None),
           Slot(GroupNode(c2, << Slot(LeafNode(y, None), None),
                                 Slot(LeafNode(z, Some(GuardExpr)), None) >>),
                None) >>)

\* C4: the children of a group are recorded in source order and a guard
\* written after a child gates that child alone.  C1: {x, C2: {y, z if g}}
\* parses to the group C1 of the unguarded leaf x and the unguarded group C2,
\* whose children are the unguarded leaf y and the leaf z carrying g.
C4_GuardGatesItsChild ==
    \A c1 \in Combinators, c2 \in Combinators :
        \A x \in Leaves, y \in Leaves, z \in Leaves :
            LET shape == NestedShape(c1, c2, x, y, z)
                tree  == NestedTree(c1, c2, x, y, z)
            IN  /\ (Ran("Where") /\ input = shape) =>
                       Accepted(result, input) /\ result.val = tree
                /\ (Ran("Query") /\ input = SelectHead \o <<"WHERE">> \o shape) =>
                       /\ Accepted(result, input)
                       /\ result.val.where_clause = Some(tree)

\* C4 witness: the tree of the repository's test has been parsed
C4_Witness ==
    /\ Ran("Query")
    /\ input = SelectHead \o <<"WHERE">>
                 \o NestedShape("AND", "OR", LeafA, LeafB, LeafC)
    /\ result.ok
    /\ result.val.where_clause[1].inner.conditions[2].value.inner.conditions[2]
         .value.inner.condition = Some(GuardExpr)

Absent(kw) == \A i \in 1 .. Len(input) : input[i] # kw

\* The token behind the table name of a select is not an opening brace
NoJoinList ==
    \A i \in 1 .. Len(input) :
        input[i] = "FROM" => ~(i + 2 <= Len(input) /\ input[i + 2] = "{")

NamedColumn(n) == [kind |-> "Named", name |-> n, alias |-> None]

\* C5: an optional clause that is absent from the input leaves its field at
\* the default: the select of columns a, b, c from table has every optional
\* field empty or None, and in every statement a missing WHERE gives
\* where_clause = None, a missing RETURNING returning = [], and likewise for
\* every optional clause of a select.
C5_AbsentClauseDefault ==
    (Ran("Query") /\ result.ok) =>
        LET q == result.val
        IN  /\ input = SelectHead =>
                q = [kind |-> "Select",
                     columns |-> <<NamedColumn("a"), NamedColumn("b"),
                                   NamedColumn("c")>>,
                     table |-> "table", joins |-> <<>>, where_clause |-> None,
                     group_by |-> <<>>, order_by |-> <<>>, limit |-> None,
                     offset |-> None, lock |-> None]
            /\ q.kind = "Select" =>
                /\ NoJoinList => q.joins = <<>>
                /\ Absent("WHERE") => q.where_clause = None
                /\ Absent("GROUP") => q.group_by = <<>>
                /\ Absent("ORDER") => q.order_by = <<>>
                /\ Absent("LIMIT") => q.limit = None
                /\ Absent("OFFSET") => q.offset = None
                /\ Absent("FOR") => q.lock = None
            /\ q.kind \in { "Update", "Delete" } =>
                (Absent("WHERE") => q.where_clause = None)
            /\ q.kind \in { "Insert", "Update", "Delete" } =>
                (Absent("RETURNING") => q.returning = <<>>)

\* C5 witness: the basic select of the repository's test has been parsed
C5_Witness ==
    /\ Ran("Query")
    /\ input = SelectHead
    /\ result.ok
    /\ result.val.where_clause = None

\* Whether the field of optional clause c holds something
HasClause(q, c) ==
    CASE c = 1 -> q.joins # <<>>
      [] c = 2 -> q.where_clause # None
      [] c = 3 -> q.group_by # <<>>
      [] c = 4 -> q.order_by # <<>>
      [] c = 5 -> q.limit # None
      [] c = 6 -> q.offset # None
      [] c = 7 -> q.lock # None

\* The position at which the j-th clause of SelectWith(cs) starts
RECURSIVE ClauseStart(_, _)
ClauseStart(cs, j) ==
    IF j = 1 THEN Len(SelectHead) + 1
    ELSE ClauseStart(cs, j - 1) + Len(ClauseToks(cs[j - 1]))

\* C6: the optional clauses of a select are accepted in the order join list,
\* WHERE, GROUP BY, ORDER BY, LIMIT, OFFSET, FOR only.  When two clauses are
\* written in the opposite order, no Select holding both is returned, the
\* clause that comes late is not consumed, and the statement is not accepted.
C6_FixedClauseOrder ==
    Ran("Query") =>
        \A cs \in ClauseSeqs :
            input = SelectWith(cs) =>
                \A i, j \in 1 .. Len(cs) :
                    (i < j /\ cs[i] > cs[j]) =>
                        /\ ~Accepted(result, input)
                        /\ result.ok =>
                               /\ ~(HasClause(result.val, cs[i])
                                    /\ HasClause(result.val, cs[j]))
                               /\ result.pos <= ClauseStart(cs, j)

\* C6 witness: LIMIT 10 WHERE a == 1 has been parsed to a select with the
\* limit and no filter, the WHERE left in the stream
C6_Witness ==
    /\ Ran("Query")
    /\ input = SelectWith(<<5, 2>>)
    /\ result.ok
    /\ result.val.limit = Some(10)
    /\ result.val.where_clause = None
    /\ result.pos = ClauseStart(<<5, 2>>, 2)

Unterminated(toks) == toks = <<>> \/ toks[Len(toks)] # ";"

\* C7: the grammar is terminator-insensitive.  A statement s (written
\* without a terminator) is accepted exactly when s followed by ; is, both
\* give the same Query, and no error of s names the terminator as expected.
C7_TerminatorInsensitive ==
    (target = "Query" /\ phase = "reparsed" /\ Unterminated(input)) =>
        LET withSemi == Append(input, ";")
        IN  /\ Accepted(result, input) =>
                Accepted(result2, withSemi) /\ result2.val = result.val
            /\ Accepted(result2, withSemi) =>
                Accepted(result, input) /\ result.val = result2.val
            /\ ~result.ok => ";" \notin result.expected

\* C7 witness: a delete with and without its terminator, both accepted
C7_Witness ==
    /\ target = "Query"
    /\ phase = "reparsed"
    /\ input = <<"DELETE">> \o DeleteBody \o <<"WHERE">> \o LeafA
    /\ Accepted(result, input)
    /\ Accepted(result2, Append(input, ";"))

JoinTypeOf(kw) ==
    CASE kw = "INNER" -> "Inner" [] kw = "LEFT" -> "Left"
      [] kw = "RIGHT" -> "Right" [] kw = "FULL" -> "Full"

JoinNode(j) ==
    [table |-> "table2", on |-> [expr |-> <<"c", "==", "d">>],
     join_type |-> JoinTypeOf(j[1]), outer |-> j[2]]

\* C8: the outer flag of a join is independent of its type.  T JOIN t ON e
\* gives join_type T with outer = false and T OUTER JOIN t ON e gives T with
\* outer = true, for each of INNER, LEFT, RIGHT, FULL, and a join list gives
\* its entries in source order.
C8_OuterIndependentOfType ==
    /\ Ran("Join") =>
           \A j \in JoinTypes \X BOOLEAN :
               input = JoinToks(j[1], j[2]) =>
                   Accepted(result, input) /\ result.val = JoinNode(j)
    /\ Ran("Query") =>
           \A js \in JoinSpecLists :
               input = JoinStmt(js) =>
                   /\ Accepted(result, input)
                   /\ result.val.joins = [i \in 1 .. Len(js) |-> JoinNode(js[i])]

\* C8 witness: the join list of the repository's test has been parsed
C8_Witness ==
    /\ Ran("Query")
    /\ input = JoinStmt(<< <<"INNER", FALSE>>, <<"FULL", TRUE>> >>)
    /\ result.ok
    /\ Len(result.val.joins) = 2
    /\ result.val.joins[1].outer = FALSE
    /\ result.val.joins[2].outer = TRUE

\* The first tokens of the alternatives of each primitive parser
Alternatives(T) ==
    CASE T = "Ordering" -> { "ASC", "DESC" }
      [] T = "BoolOp" -> { "AND", "OR" }
      [] T = "ForLock" -> { "UPDATE", "SHARE" }
      [] T = "WhereOp" -> CmpPuncts \cup { "LIKE", "NOT", "IN" }

Primitives == { "Ordering", "BoolOp", "ForLock", "WhereOp" }

\* C9: when the token at the position of a primitive parser is none of the
\* alternatives it accepts, the parse fails there and the error names all of
\* them: ASC and DESC, AND and OR, UPDATE and SHARE, every operator form.
C9_ErrorNamesAllAlternatives ==
    /\ \A T \in Primitives :
           (Ran(T) /\ (input = <<>> \/ input[1] \notin Alternatives(T))) =>
               /\ ~result.ok
               /\ result.pos = 1
               /\ result.expected = Alternatives(T)
    /\ \A t \in Unbraced \ Alternatives("ForLock") :
           (Ran("Query") /\ input = SelectHead \o <<"FOR", t>>) =>
               ~result.ok /\ result.expected = Alternatives("ForLock")

\* The calls of Conditional::<Where>::parse for a child of a group that are
\* on the stack, up to frame i
ChildCalls(i) ==
    Cardinality({ k \in 2 .. i : stack[k].fn = "Conditional" })

\* The number of braces open at position p, and the nesting depth of a stream
BraceDepthAt(toks, p) ==
    Cardinality({ i \in 1 .. p - 1 : toks[i] = "{" })
    - Cardinality({ i \in 1 .. p - 1 : toks[i] = "}" })

NestingDepth(toks) ==
    IF toks = <<>> THEN 0
    ELSE CHOOSE d \in 0 .. Len(toks) :
            /\ \E p \in 1 .. End(toks) : BraceDepthAt(toks, p) = d
            /\ \A p \in 1 .. End(toks) : BraceDepthAt(toks, p) <= d

\* The recursion is as deep as the braces around the child being parsed
RecursionBounded ==
    /\ ChildCalls(Len(stack)) <= NestingDepth(input)
    /\ \A i \in 2 .. Len(stack) :
           stack[i].fn = "Conditional" =>
               ChildCalls(i) = BraceDepthAt(input, stack[i].start)

\* The region of a call for a child lies strictly inside the region of every
\* call around it, behind the opening brace and before the closing one
RegionsShrink ==
    \A i, j \in 1 .. Len(stack) :
        (i < j /\ stack[i].fn = "Conditional" /\ stack[j].fn = "Conditional") =>
            /\ stack[i].start < stack[j].start
            /\ stack[j].end < stack[i].end
            /\ input[stack[j].end] = "}"

\* C10: parsing terminates.  For every stream the condition-tree parser
\* eventually returns a tree or an error; each call for a child of a group
\* works on the strictly smaller region inside the braces of that group, the
\* recursion is never deeper than the braces are nested, and the cursor
\* never moves backwards.
C10_Terminates ==
    /\ <>Returned
    /\ [](RecursionBounded /\ RegionsShrink)
    /\ [][cursor' >= cursor]_vars

\* C10 witness: the parser has returned the tree of a twice nested group
C10_Witness ==
    /\ Returned
    /\ ret.ok
    /\ input = NestedShape("AND", "OR", LeafA, LeafB, LeafC)
    /\ ret.val.value.kind = "BoolWhere"
    /\ NestingDepth(input) = 2

\* The guard a run of guards leaves in the slot at place i, if any
GuardVal(name) ==
    IF name = "g" THEN GuardExpr ELSE [expr |-> <<"h">>]

GuardAt(run, i) == IF Len(run) >= i THEN Some(GuardVal(run[i])) ELSE None

\* The node a child is expected to parse to, own being the guard run behind it
KidNode(k, run) ==
    CASE k = "A" -> LeafNode(LeafA, GuardAt(run, 1))
      [] k = "B" -> LeafNode(LeafB, GuardAt(run, 1))
      [] k = "G" -> GroupNode("OR", << Slot(LeafNode(LeafC, None), None) >>)
      [] k = "N" -> GroupNode("AND",
                        << Slot(LeafNode(LeafC, Some(GuardExpr)),
                                Some(GuardVal("h"))) >>)

\* The child slot: a leaf hands its second guard to the slot, a group its
\* first
KidSlot(k, run) ==
    Slot(KidNode(k, run),
         IF k \in LeafKids THEN GuardAt(run, 2) ELSE GuardAt(run, 1))

\* A run a child can carry: a group has one guard slot, a leaf two
RunFits(k, run) == k \in LeafKids \/ Len(run) <= 1

\* In the slot and in every slot below it, a leaf with a guard in its child
\* slot has a guard of its own
RECURSIVE SlotOwnsFirst(_)
RECURSIVE NodeOwnsFirst(_)
SlotOwnsFirst(slot) ==
    /\ (slot.value.kind = "Column" /\ slot.condition # None) =>
           slot.value.inner.condition # None
    /\ NodeOwnsFirst(slot.value)

NodeOwnsFirst(w) ==
    w.kind = "BoolWhere" =>
        \A i \in 1 .. Len(w.inner.conditions) :
            SlotOwnsFirst(w.inner.conditions[i])

\* C11: a leaf that is a child of a group has two guard slots, its own and
\* that of the child slot.  The first `if g` behind the leaf is recorded in
\* the leaf's own slot, and the child slot stays empty unless a second
\* `if h` follows at once; the one `if g` behind the closing brace of a
\* group child is recorded in the child slot.  Hence in every parsed tree a
\* leaf child with a guard in its child slot has a guard of its own.
C11_LeafOwnsFirstGuard ==
    /\ (Ran("Where") /\ result.ok) => NodeOwnsFirst(result.val)
    /\ (Ran("ConditionalWhere") /\ result.ok) => SlotOwnsFirst(result.val)
    /\ (Ran("Query") /\ result.ok /\ "where_clause" \in DOMAIN result.val
          /\ result.val.where_clause # None) =>
           NodeOwnsFirst(result.val.where_clause[1])
    /\ \A c \in Combinators, k1 \in Kids, k2 \in Kids :
         \A r1 \in GuardRuns, r2 \in GuardRuns :
           (RunFits(k1, r1) /\ RunFits(k2, r2)) =>
             LET toks == TwoKids(c, k1, r1, k2, r2)
                 tree == GroupNode(c, << KidSlot(k1, r1), KidSlot(k2, r2) >>)
             IN  /\ (Ran("Where") /\ input = toks) =>
                        Accepted(result, input) /\ result.val = tree
                 /\ (Ran("ConditionalWhere") /\ input = toks) =>
                        /\ Accepted(result, input)
                        /\ result.val = Slot(tree, None)
                 /\ (Ran("Query") /\ input = SelectHead \o <<"WHERE">> \o toks) =>
                        /\ Accepted(result, input)
                        /\ result.val.where_clause = Some(tree)
    /\ \A k \in LeafKids, r \in GuardRuns :
           (Ran("ConditionalWhere") /\ input = KidToks(k) \o GuardRunToks(r)) =>
               Accepted(result, input) /\ result.val = KidSlot(k, r)

\* C11 witness: AND: {a == 1 if d == 4 if h, OR: {c LIKE 3} if d == 4} has
\* been parsed; the leaf carries the first guard and its slot the second,
\* the slot of the group carries the one guard behind it
C11_Witness ==
    /\ Ran("Where")
    /\ input = TwoKids("AND", "A", <<"g", "h">>, "G", <<"g">>)
    /\ result.ok
    /\ result.val.inner.conditions[1].value.inner.condition = Some(GuardExpr)
    /\ result.val.inner.conditions[1].condition = Some([expr |-> <<"h">>])
    /\ result.val.inner.conditions[2].value.kind = "BoolWhere"
    /\ result.val.inner.conditions[2].condition = Some(GuardExpr)

====
